---- MODULE Spec2Model ----
(***************************************************************************)
(* Model of the feed ingestion pipeline of Gaetan-feed                     *)
(* (server/services/feedServices.js), of the article store it writes       *)
(* (server/models/articles.js, articleSchema) and of the two reader        *)
(* routes that write the store (PATCH /:id/read, PATCH /:id/save).         *)
(*                                                                         *)
(* Every await of the JavaScript code is a suspension point: the code      *)
(* between two awaits is one action.  A run of fetchAllFeeds is an         *)
(* instance r; its item tasks are tasks[r].                                *)
(***************************************************************************)
EXTENDS Integers, Sequences, FiniteSets, TLC

(* ------------------------------------------------------------------ *)
(* Program constants                                                  *)
(* ------------------------------------------------------------------ *)
MAX_FEED_RETRIES == 2
MAX_SCRAPE_CONCURRENCY == 4
BackoffUnit == 500

(* ------------------------------------------------------------------ *)
(* Bounds of the model                                                *)
(* ------------------------------------------------------------------ *)
MaxRuns == 2
MaxReaderOps == 2
MaxPendingToggles == 1

Runs == 1..MaxRuns

(* ------------------------------------------------------------------ *)
(* URL values.  k = "none": absent (undefined, null or '');           *)
(* "abs": matches /^https?:\/\//; "rel": a relative reference;        *)
(* "bad": a string new URL() rejects.  b names the base a relative    *)
(* reference was resolved against ("" when it was not resolved).      *)
(* ------------------------------------------------------------------ *)
Null == [k |-> "none", n |-> "", b |-> ""]
Abs(name) == [k |-> "abs", n |-> name, b |-> ""]
Rel(name) == [k |-> "rel", n |-> name, b |-> ""]
Bad(name) == [k |-> "bad", n |-> name, b |-> ""]
Sentinel == Bad("#")

Truthy(u) == u.k # "none"

\* a || b of JavaScript on URL values
OrElse(a, b) == IF Truthy(a) THEN a ELSE b

\* new URL(src, base).toString(): throws unless base is an absolute URL
\* and src can be parsed against it
normalizeUrl(base, src) ==
  IF ~Truthy(src) THEN Null
  ELSE IF src.k = "abs" THEN src
  ELSE IF src.k = "rel" /\ base.k = "abs" THEN [k |-> "abs", n |-> src.n, b |-> base.n]
  ELSE Null

(* ------------------------------------------------------------------ *)
(* Other JavaScript values: undefined, a number, a function object,   *)
(* and what the promise of fetchAllFeeds holds (nothing yet,          *)
(* undefined, a value, or the error it was rejected with)             *)
(* ------------------------------------------------------------------ *)
Pending == [kind |-> "pending", n |-> 0]
Undefined == [kind |-> "undefined", n |-> 0]
Count(n) == [kind |-> "count", n |-> n]
Num(n) == [kind |-> "number", n |-> n]
FunctionObject == [kind |-> "function", n |-> 0]
Rejected == [kind |-> "rejected", n |-> 0]

\* !v
Falsy(v) == v.kind = "undefined" \/ (v.kind = "number" /\ v.n = 0)

(* ------------------------------------------------------------------ *)
(* Dates: k = "none" (absent), "date" (a string new Date() parses, t  *)
(* its time) or "bad" (a string that gives an Invalid Date)           *)
(* ------------------------------------------------------------------ *)
NoDate == [k |-> "none", t |-> 0]
DateAt(t) == [k |-> "date", t |-> t]
BadDate == [k |-> "bad", t |-> 0]

\* isNaN(d.getTime()) ? new Date() : d, called at time at
safeDate(dateLike, at) == IF dateLike.k = "date" THEN dateLike.t ELSE at

(* ------------------------------------------------------------------ *)
(* Titles are sequences of characters, " " is white space.            *)
(* ------------------------------------------------------------------ *)
RECURSIVE TrimLeft(_)
TrimLeft(s) == IF s # <<>> /\ Head(s) = " " THEN TrimLeft(Tail(s)) ELSE s

RECURSIVE TrimRight(_)
TrimRight(s) ==
  IF s # <<>> /\ s[Len(s)] = " " THEN TrimRight(SubSeq(s, 1, Len(s) - 1)) ELSE s

Trim(s) == TrimRight(TrimLeft(s))

NoTitle == <<"N", "o", " ", "t", "i", "t", "l", "e">>

\* (item.title || '').trim() || 'No title'
NormTitle(t) == IF Trim(t) = <<>> THEN NoTitle ELSE Trim(t)

(* ------------------------------------------------------------------ *)
(* Categories and relevance                                           *)
(* ------------------------------------------------------------------ *)
UpperCase ==
  <<"A", "B", "C", "D", "E", "F", "G", "H", "I", "J", "K", "L", "M",
    "N", "O", "P", "Q", "R", "S", "T", "U", "V", "W", "X", "Y", "Z">>

LowerCase ==
  <<"a", "b", "c", "d", "e", "f", "g", "h", "i", "j", "k", "l", "m",
    "n", "o", "p", "q", "r", "s", "t", "u", "v", "w", "x", "y", "z">>

LowerChar(c) ==
  IF \E k \in DOMAIN UpperCase : UpperCase[k] = c
  THEN LowerCase[CHOOSE k \in DOMAIN UpperCase : UpperCase[k] = c]
  ELSE c

\* String.prototype.toLowerCase
toLowerCase(t) == [k \in DOMAIN t |-> LowerChar(t[k])]

\* String.prototype.includes
includes(text, k) ==
  \E p \in 0..(Len(text) - Len(k)) : SubSeq(text, p + 1, p + Len(k)) = k

EntriesAfricaFirst ==
  <<
    [category |-> "Africa Finance",
     keywords |-> <<
        <<"a", "f", "r", "i", "c", "a">>,
        <<"a", "f", "r", "i", "c", "a", "n">>,
        <<"s", "u", "b", "-", "s", "a", "h", "a", "r", "a", "n">>,
        <<"n", "i", "g", "e", "r", "i", "a">>,
        <<"k", "e", "n", "y", "a">>,
        <<"s", "o", "u", "t", "h", " ", "a", "f", "r", "i", "c", "a">>>>],
    [category |-> "Capital Strategy",
     keywords |-> <<
        <<"r", "a", "t", "e">>,
        <<"i", "n", "f", "l", "a", "t", "i", "o", "n">>,
        <<"c", "a", "p", "i", "t", "a", "l">>,
        <<"m", "a", "r", "k", "e", "t">>,
        <<"m", "a", "c", "r", "o">>,
        <<"l", "i", "q", "u", "i", "d", "i", "t", "y">>,
        <<"m", "o", "n", "e", "t", "a", "r", "y">>,
        <<"f", "i", "s", "c", "a", "l">>>>],
    [category |-> "Private Markets & M&A",
     keywords |-> <<
        <<"d", "e", "a", "l">>,
        <<"a", "c", "q", "u", "i", "s", "i", "t", "i", "o", "n">>,
        <<"v", "a", "l", "u", "a", "t", "i", "o", "n">>,
        <<"l", "b", "o">>,
        <<"p", "r", "i", "v", "a", "t", "e", " ", "e", "q", "u", "i", "t", "y">>,
        <<"f", "u", "n", "d", "i", "n", "g">>,
        <<"t", "e", "r", "m", " ", "s", "h", "e", "e", "t">>,
        <<"m", "e", "r", "g", "e", "r">>,
        <<"b", "u", "y", "o", "u", "t">>>>],
    [category |-> "Operational Excellence",
     keywords |-> <<
        <<"p", "r", "o", "d", "u", "c", "t", "i", "v", "i", "t", "y">>,
        <<"c", "o", "s", "t">>,
        <<"e", "f", "f", "i", "c", "i", "e", "n", "c", "y">>,
        <<"a", "u", "t", "o", "m", "a", "t", "i", "o", "n">>,
        <<"f", "o", "r", "e", "c", "a", "s", "t">>,
        <<"t", "r", "a", "n", "s", "f", "o", "r", "m", "a", "t", "i", "o", "n">>,
        <<"f", "p", "&", "a">>,
        <<"o", "p", "e", "r", "a", "t", "i", "o", "n", "s">>>>],
    [category |-> "Leadership & Conscious CFO",
     keywords |-> <<
        <<"l", "e", "a", "d", "e", "r", "s", "h", "i", "p">>,
        <<"c", "u", "l", "t", "u", "r", "e">>,
        <<"b", "e", "h", "a", "v", "i", "o", "r">>,
        <<"i", "n", "f", "l", "u", "e", "n", "c", "e">>,
        <<"t", "e", "a", "m">>,
        <<"d", "e", "c", "i", "s", "i", "o", "n">>,
        <<"m", "i", "n", "d", "s", "e", "t">>,
        <<"c", "o", "n", "s", "c", "i", "o", "u", "s">>>>]
  >>

\* Object.entries(CATEGORY_KEYWORDS): the categories in the order they are
\* written, each with its keywords
CATEGORY_KEYWORDS ==
  <<
    [category |-> "Capital Strategy",
     keywords |-> <<
        <<"r", "a", "t", "e">>,
        <<"i", "n", "f", "l", "a", "t", "i", "o", "n">>,
        <<"c", "a", "p", "i", "t", "a", "l">>,
        <<"m", "a", "r", "k", "e", "t">>,
        <<"m", "a", "c", "r", "o">>,
        <<"l", "i", "q", "u", "i", "d", "i", "t", "y">>,
        <<"m", "o", "n", "e", "t", "a", "r", "y">>,
        <<"f", "i", "s", "c", "a", "l">>>>],
    [category |-> "Private Markets & M&A",
     keywords |-> <<
        <<"d", "e", "a", "l">>,
        <<"a", "c", "q", "u", "i", "s", "i", "t", "i", "o", "n">>,
        <<"v", "a", "l", "u", "a", "t", "i", "o", "n">>,
        <<"l", "b", "o">>,
        <<"p", "r", "i", "v", "a", "t", "e", " ", "e", "q", "u", "i", "t", "y">>,
        <<"f", "u", "n", "d", "i", "n", "g">>,
        <<"t", "e", "r", "m", " ", "s", "h", "e", "e", "t">>,
        <<"m", "e", "r", "g", "e", "r">>,
        <<"b", "u", "y", "o", "u", "t">>>>],
    [category |-> "Operational Excellence",
     keywords |-> <<
        <<"p", "r", "o", "d", "u", "c", "t", "i", "v", "i", "t", "y">>,
        <<"c", "o", "s", "t">>,
        <<"e", "f", "f", "i", "c", "i", "e", "n", "c", "y">>,
        <<"a", "u", "t", "o", "m", "a", "t", "i", "o", "n">>,
        <<"f", "o", "r", "e", "c", "a", "s", "t">>,
        <<"t", "r", "a", "n", "s", "f", "o", "r", "m", "a", "t", "i", "o", "n">>,
        <<"f", "p", "&", "a">>,
        <<"o", "p", "e", "r", "a", "t", "i", "o", "n", "s">>>>],
    [category |-> "Leadership & Conscious CFO",
     keywords |-> <<
        <<"l", "e", "a", "d", "e", "r", "s", "h", "i", "p">>,
        <<"c", "u", "l", "t", "u", "r", "e">>,
        <<"b", "e", "h", "a", "v", "i", "o", "r">>,
        <<"i", "n", "f", "l", "u", "e", "n", "c", "e">>,
        <<"t", "e", "a", "m">>,
        <<"d", "e", "c", "i", "s", "i", "o", "n">>,
        <<"m", "i", "n", "d", "s", "e", "t">>,
        <<"c", "o", "n", "s", "c", "i", "o", "u", "s">>>>],
    [category |-> "Africa Finance",
     keywords |-> <<
        <<"a", "f", "r", "i", "c", "a">>,
        <<"a", "f", "r", "i", "c", "a", "n">>,
        <<"s", "u", "b", "-", "s", "a", "h", "a", "r", "a", "n">>,
        <<"n", "i", "g", "e", "r", "i", "a">>,
        <<"k", "e", "n", "y", "a">>,
        <<"s", "o", "u", "t", "h", " ", "a", "f", "r", "i", "c", "a">>>>]
  >>

\* text.includes(k.toLowerCase()) for some keyword k; a keyword longer than
\* the text cannot occur in it
AnyKeyword(text, keywords) ==
  \E k \in DOMAIN keywords :
    /\ Len(keywords[k]) <= Len(text)
    /\ includes(text, toLowerCase(keywords[k]))

\* the two for loops of categorizeArticle from entry j on
RECURSIVE FirstCategory(_, _, _)
FirstCategory(entries, j, text) ==
  IF j > Len(entries) THEN "Uncategorized"
  ELSE IF AnyKeyword(text, entries[j].keywords) THEN entries[j].category
  ELSE FirstCategory(entries, j + 1, text)

\* `${title} ${description}`.toLowerCase(), then the first category with a
\* keyword in the text
categorizeArticle(title, description) ==
  FirstCategory(CATEGORY_KEYWORDS, 1, toLowerCase(title \o <<" ">> \o description))

\* the properties every object literal inherits from Object.prototype
ObjectPrototypeKeys ==
  {"constructor", "toString", "toLocaleString", "valueOf", "hasOwnProperty",
   "isPrototypeOf", "propertyIsEnumerable", "__proto__", "__defineGetter__",
   "__defineSetter__", "__lookupGetter__", "__lookupSetter__"}

\* the object literal scores of calculateRelevance
RelevanceScores ==
  [c \in {"Private Markets & M&A", "Africa Finance", "Capital Strategy",
          "Operational Excellence", "Leadership & Conscious CFO", "Uncategorized"} |->
     CASE c = "Private Markets & M&A" -> 5
       [] c = "Africa Finance" -> 5
       [] c = "Capital Strategy" -> 4
       [] c = "Operational Excellence" -> 4
       [] c = "Leadership & Conscious CFO" -> 3
       [] c = "Uncategorized" -> 1]

\* scores[category]: an own property, else one inherited from
\* Object.prototype, else undefined
ScoresGet(category) ==
  IF category \in DOMAIN RelevanceScores THEN Num(RelevanceScores[category])
  ELSE IF category \in ObjectPrototypeKeys THEN FunctionObject
  ELSE Undefined

DefaultRelevance == 2

\* scores[category] || 2
calculateRelevance(category) ==
  IF Falsy(ScoresGet(category)) THEN Num(DefaultRelevance) ELSE ScoresGet(category)

(* ------------------------------------------------------------------ *)
(* Image extraction from the item itself                              *)
(* ------------------------------------------------------------------ *)
\* item.content || item['content:encoded'] || item.contentSnippet || '':
\* a content field is "" (absent), "text" (html without <img>) or "img"
\* (html with an <img src=...>, whose src is the item's inlineSrc)
InlineHtml(item) ==
  IF item.content # "" THEN item.content
  ELSE IF item.contentEncoded # "" THEN item.contentEncoded
  ELSE item.contentSnippet

MediaThumbnailFirst(item) ==
  IF Truthy(item.enclosure) THEN item.enclosure
  ELSE IF Truthy(item.mediaThumbnail) THEN item.mediaThumbnail
  ELSE item.mediaContent

\* step 1 of extractImageFromItem: enclosure, media:content, media:thumbnail
FeedMedia(item) ==
  IF Truthy(item.enclosure) THEN item.enclosure
  ELSE IF Truthy(item.mediaContent) THEN item.mediaContent
  ELSE item.mediaThumbnail

extractImageFromItem(item) ==
  IF Truthy(FeedMedia(item)) THEN FeedMedia(item)
  ELSE IF InlineHtml(item) = "img" /\ Truthy(item.inlineSrc) THEN item.inlineSrc
  ELSE Null

(* ------------------------------------------------------------------ *)
(* Page scrape: og:image, twitter:image, then the <img> elements      *)
(* ------------------------------------------------------------------ *)
RECURSIVE FirstNormalizable(_, _)
FirstNormalizable(url, imgs) ==
  IF imgs = <<>> THEN Null
  ELSE IF Truthy(normalizeUrl(url, Head(imgs))) THEN normalizeUrl(url, Head(imgs))
  ELSE FirstNormalizable(url, Tail(imgs))

\* the body of scrapePageForImage once axios.get has answered with page
ScrapeParse(url, page) ==
  IF Truthy(page.og) THEN normalizeUrl(url, page.og)
  ELSE IF Truthy(page.tw) THEN normalizeUrl(url, page.tw)
  ELSE FirstNormalizable(url, page.imgs)

(* ------------------------------------------------------------------ *)
(* Feed contents served to the pipeline                               *)
(* ------------------------------------------------------------------ *)
EmptyPage == [og |-> Null, tw |-> Null, imgs |-> <<>>]

\* an item with a link, a title and a date and nothing else; text holds the
\* characters of each content field
PlainItem(name, title) ==
  [link |-> Abs(name), guid |-> Null, title |-> title, titleObj |-> FALSE,
   enclosure |-> Null, mediaContent |-> Null, mediaThumbnail |-> Null,
   content |-> "", contentEncoded |-> "", contentSnippet |-> "",
   text |-> [content |-> <<>>, contentEncoded |-> <<>>, contentSnippet |-> <<>>],
   pubDate |-> DateAt(0), isoDate |-> DateAt(0),
   inlineSrc |-> Null, page |-> EmptyPage]

\* enclosure (absolute), an inline <img> and a page with og:image
ItemEnclosure ==
  [PlainItem("u1", <<"A">>) EXCEPT !.enclosure = Abs("enc1"), !.content = "img",
     !.inlineSrc = Abs("inl1"), !.page = [og |-> Abs("og1"), tw |-> Null, imgs |-> <<>>]]

\* enclosure given as a relative reference
ItemRelEnclosure ==
  [PlainItem("u4", <<"R">>) EXCEPT !.enclosure = Rel("enc4"),
     !.page = [og |-> Abs("og4"), tw |-> Null, imgs |-> <<>>]]

\* the same link as ItemEnclosure with another title, no media of its own and
\* a publish date that does not parse
ItemRetitled ==
  [PlainItem("u1", <<" ", "B", " ">>) EXCEPT
     !.pubDate = BadDate, !.isoDate = NoDate,
     !.page = [og |-> Rel("og1"), tw |-> Null, imgs |-> <<>>]]

\* media:thumbnail and media:content, no enclosure
ItemTwoMedia ==
  [PlainItem("u2", <<"C">>) EXCEPT !.mediaThumbnail = Abs("thumb2"),
     !.mediaContent = Abs("mc2")]

\* media:thumbnail only
ItemThumbOnly == [PlainItem("u5", <<"T">>) EXCEPT !.mediaThumbnail = Abs("thumb5")]

\* inline <img> only
ItemInline ==
  [PlainItem("u3", <<"D">>) EXCEPT !.contentEncoded = "img", !.inlineSrc = Rel("inl3"),
     !.page = [og |-> Abs("og3"), tw |-> Null, imgs |-> <<>>]]

\* no link, a guid, and a media:thumbnail given as a relative reference
ItemRelNoLink ==
  [PlainItem("", <<"L">>) EXCEPT !.link = Null, !.guid = Abs("guid9"),
     !.mediaThumbnail = Rel("thumb9")]

\* a title that is not a string: (item.title || '').trim is not a function
ItemBadTitle == [PlainItem("u6", <<>>) EXCEPT !.titleObj = TRUE]

\* neither link nor guid, blank title
ItemNoLink == [PlainItem("", <<" ">>) EXCEPT !.link = Null]

\* neither link nor guid either, with a title
ItemNoLinkToo == [PlainItem("", <<"X">>) EXCEPT !.link = Null]

\* no link, a guid that is a URL; the page has only <img> elements, the
\* first with a src that cannot be resolved
ItemGuidOnly ==
  [PlainItem("", <<"G">>) EXCEPT !.link = Null, !.guid = Abs("guid7"),
     !.page = [og |-> Null, tw |-> Null, imgs |-> <<Bad("img7"), Rel("img8")>>]]

\* a feed source object, with the items its url serves
Feed(name, items) == [url |-> name, source |-> name, items |-> items, isObject |-> TRUE]

\* an entry of the list that is null or undefined: reading its url raises
NullEntry == [url |-> "", source |-> "", items |-> <<>>, isObject |-> FALSE]

\* one feed with n plain items with enclosures, each with its own link;
\* the title of the second is not a string
GateItem(i) ==
  [PlainItem(<<"g1", "g2", "g3", "g4", "g5", "g6", "g7", "g8">>[i], <<"P">>)
     EXCEPT !.enclosure = Abs("encg"), !.titleObj = (i = 2)]

GateFeedSize == 6

GateFeed == Feed("gate", [i \in 1..GateFeedSize |-> GateItem(i)])

\* what fetchAllFeeds is given (the registry, or the feeds of the request
\* body: a list, possibly with an entry that is no object, or a value that
\* cannot be iterated) and what the remote feeds serve, how many runs are
\* triggered, how many reader requests arrive, whether a run may be triggered
\* while another is going, and whether the database connection can fail
Worlds ==
  { [feeds |-> <<Feed("f1", <<ItemEnclosure>>), Feed("f2", <<ItemRetitled>>)>>,
     runs |-> MaxRuns, readerOps |-> MaxReaderOps, overlap |-> FALSE, dbFaults |-> TRUE,
     posted |-> <<>>, iterable |-> TRUE],
    [feeds |-> <<Feed("f1", <<ItemBadTitle, ItemNoLink, ItemNoLinkToo>>),
                 Feed("f2", <<ItemGuidOnly, ItemInline>>)>>,
     runs |-> 1, readerOps |-> 1, overlap |-> FALSE, dbFaults |-> TRUE,
     posted |-> <<>>, iterable |-> TRUE],
    [feeds |-> <<Feed("f1", <<ItemRelEnclosure, ItemThumbOnly>>), Feed("f2", <<>>),
                 Feed("f3", <<ItemTwoMedia, ItemEnclosure>>)>>,
     runs |-> 1, readerOps |-> 1, overlap |-> FALSE, dbFaults |-> TRUE,
     posted |-> <<>>, iterable |-> TRUE],
    [feeds |-> <<GateFeed, Feed("f2", <<ItemTwoMedia>>)>>,
     runs |-> 1, readerOps |-> 0, overlap |-> FALSE, dbFaults |-> FALSE,
     posted |-> <<>>, iterable |-> TRUE],
    [feeds |-> <<Feed("f1", <<ItemRelNoLink>>), NullEntry, Feed("f3", <<ItemTwoMedia>>)>>,
     runs |-> 1, readerOps |-> 0, overlap |-> FALSE, dbFaults |-> FALSE,
     posted |-> <<>>, iterable |-> TRUE],
    [feeds |-> <<>>,
     runs |-> 1, readerOps |-> 0, overlap |-> FALSE, dbFaults |-> FALSE,
     posted |-> <<>>, iterable |-> FALSE] }

(* ------------------------------------------------------------------ *)
(* State                                                              *)
(* ------------------------------------------------------------------ *)
VARIABLES
  world,     \* the feeds and the triggers of this behaviour (never changes)
  store,     \* the articles collection: a set of documents
  runs,      \* runs[r]: the locals of run r of fetchAllFeeds and its gate
  tasks,     \* tasks[r]: the item tasks of the feed run r is processing
  pending,   \* PATCH /:id/save requests between findById and save
  opsLeft,   \* reader requests still to arrive
  now,       \* the clock new Date() reads: it advances with every trigger
  probe      \* a direct call of one of the exported helpers and its result

vars == <<world, store, runs, tasks, pending, opsLeft, now, probe>>

\* no helper is called directly
NoProbe == [fn |-> "", args |-> <<>>, done |-> TRUE, out |-> Undefined]

NoArt ==
  [title |-> <<>>, url |-> Null, source |-> "", category |-> "", description |-> <<>>,
   publishedDate |-> 0, relevanceScore |-> Undefined, image |-> Null]

\* log is the console output of fetchFeedItemsWithRetries for the current feed,
\* visited the feeds whose fetch was started, writes the upserts the database
\* has applied for this run, logged the total printed at the end, scrapes how
\* each call of scrapePageForImage of the run ended, final what the pipeline
\* has written to the store when the run ends
IdleRun ==
  [pc |-> "idle", feedIdx |-> 0, attempt |-> 0, waitMs |-> 0, log |-> <<>>,
   exhausted |-> {}, visited |-> {}, totalSaved |-> 0, writes |-> 0,
   logged |-> -1, result |-> Pending, active |-> 0, queue |-> <<>>,
   scrapes |-> {}, final |-> {}]

\* out: "" while the task function runs, then "saved" or "raised"; scrape: how
\* the call of scrapePageForImage ended, "" when there was none
QueuedTask ==
  [pc |-> "queued", image |-> Null, requested |-> FALSE, scrape |-> "",
   art |-> NoArt, out |-> ""]

Init ==
  /\ world \in Worlds
  /\ store = {}
  /\ runs = [r \in Runs |-> IdleRun]
  /\ tasks = [r \in Runs |-> <<>>]
  /\ pending = {}
  /\ opsLeft = world.readerOps
  /\ now = 0
  /\ probe = NoProbe

(* ------------------------------------------------------------------ *)
(* createLimitedQueue                                                 *)
(* ------------------------------------------------------------------ *)
GateAdmitsAtLimit(active, limit) == active > limit

\* if (active >= limit) the caller waits in queue
GateFull(active, limit) == active >= limit

\* the synchronous part of the task function, up to its first await:
\* title, desc, category, relevance, then the call of extractImageFromItem;
\* a raise is caught by the task's own catch and the function returns
RunSync(item) ==
  IF item.titleObj
  THEN [pc |-> "settled", image |-> Null, requested |-> FALSE, scrape |-> "",
        art |-> NoArt, out |-> "raised"]
  ELSE [pc |-> "extracted", image |-> extractImageFromItem(item),
        requested |-> FALSE, scrape |-> "", art |-> NoArt, out |-> ""]

\* items.map((item) => queue(async () => ...)): every item is submitted in
\* the same synchronous block, in list order
RECURSIVE SubmitFrom(_, _, _, _, _)
SubmitFrom(items, i, active, queue, ts) ==
  IF i > Len(items) THEN [active |-> active, queue |-> queue, tasks |-> ts]
  ELSE IF GateFull(active, MAX_SCRAPE_CONCURRENCY)
       THEN SubmitFrom(items, i + 1, active, Append(queue, i), Append(ts, QueuedTask))
       ELSE SubmitFrom(items, i + 1, active + 1, queue, Append(ts, RunSync(items[i])))

\* const feeds = req.body.feeds || RSS_FEEDS: the feed list of run r; posted is
\* the list a later trigger names in its body, <<>> when it names none
FeedsOf(r) == IF r > 1 /\ world.posted # <<>> THEN world.posted ELSE world.feeds

CurFeed(r) == FeedsOf(r)[runs[r].feedIdx]
CurItem(r, i) == CurFeed(r).items[i]

(* ------------------------------------------------------------------ *)
(* fetchAllFeeds and fetchFeedItemsWithRetries                        *)
(* ------------------------------------------------------------------ *)
RunActive(r) == runs[r].pc \notin {"idle", "finished", "rejected"}

\* the function ends after its console.log, without a return statement
ReturnValue(run) == Undefined

\* the fields of a document that articleData sets
Written(d) ==
  [title |-> d.title, url |-> d.url, source |-> d.source, category |-> d.category,
   description |-> d.description, publishedDate |-> d.publishedDate,
   relevanceScore |-> d.relevanceScore, image |-> d.image]

\* console.log of the total, then the end of the function
FinishRun(run) ==
  [run EXCEPT !.pc = "finished", !.logged = run.totalSaved, !.result = ReturnValue(run),
              !.final = {Written(d) : d \in store}]

\* an error leaves fetchAllFeeds: its promise is rejected
RejectRun(run) == [run EXCEPT !.pc = "rejected", !.result = Rejected]

\* feed.url can be read; for null and undefined the read raises a TypeError,
\* in the try of fetchFeedItemsWithRetries and again in the console.warn of
\* its catch
EntryReadable(feed) == feed.isObject

\* the for loop reaches feed idx: the first parseURL is issued, or the loop
\* ends; for...of raises when feeds cannot be iterated, and an error raised
\* in the catch of fetchFeedItemsWithRetries leaves it and fetchAllFeeds
EnterFeed(feeds, run, idx) ==
  IF ~world.iterable THEN RejectRun(run)
  ELSE IF idx > Len(feeds) THEN FinishRun(run)
  ELSE IF ~EntryReadable(feeds[idx]) THEN RejectRun(run)
  ELSE [run EXCEPT !.pc = "fetching", !.feedIdx = idx, !.attempt = 0,
                   !.waitMs = 0, !.log = <<>>, !.active = 0, !.queue = <<>>,
                   !.visited = @ \cup {idx}]

\* a trigger (startup, cron, POST /api/fetch-feeds) calls fetchAllFeeds
StartRun(r) ==
  /\ runs[r].pc = "idle"
  /\ r <= world.runs
  /\ \A q \in Runs : q < r => runs[q].pc # "idle"
  /\ world.overlap \/ \A q \in Runs : ~RunActive(q)
  /\ runs' = [runs EXCEPT ![r] = EnterFeed(FeedsOf(r), @, 1)]
  /\ tasks' = [tasks EXCEPT ![r] = <<>>]
  /\ now' = now + 1
  /\ UNCHANGED <<probe, world, store, pending, opsLeft>>

\* the items of the feed are known: the gate is created and every item submitted
BeginItems(r, run, items) ==
  LET sub == SubmitFrom(items, 1, 0, <<>>, <<>>) IN
  /\ runs' = [runs EXCEPT ![r] = [run EXCEPT !.pc = "items", !.active = sub.active,
                                            !.queue = sub.queue]]
  /\ tasks' = [tasks EXCEPT ![r] = sub.tasks]

\* parser.parseURL resolves
FetchOk(r) ==
  /\ runs[r].pc = "fetching"
  /\ BeginItems(r, [runs[r] EXCEPT !.log = Append(@, "ok")], CurFeed(r).items)
  /\ UNCHANGED <<probe, now, world, store, pending, opsLeft>>

BackoffFixed(attempt) == BackoffUnit

\* 500 * (attempt + 1)
BackoffDelay(attempt) == BackoffUnit * (attempt + 1)

\* parser.parseURL rejects: warn, then setTimeout(500 * (attempt + 1))
FetchFail(r) ==
  /\ runs[r].pc = "fetching"
  /\ runs' = [runs EXCEPT ![r] = [@ EXCEPT !.pc = "backoff", !.log = Append(@, "fail"),
                                           !.waitMs = BackoffDelay(runs[r].attempt)]]
  /\ UNCHANGED <<probe, now, world, store, tasks, pending, opsLeft>>

RetryAllowed(attempt, retries) == attempt <= retries

\* the timer fires: attempt++, then the next parseURL, or return []
BackoffDone(r) ==
  /\ runs[r].pc = "backoff"
  /\ IF RetryAllowed(runs[r].attempt + 1, MAX_FEED_RETRIES)
     THEN /\ runs' = [runs EXCEPT ![r] = [@ EXCEPT !.pc = "fetching", !.attempt = @ + 1]]
          /\ UNCHANGED tasks
     ELSE BeginItems(r, [runs[r] EXCEPT !.attempt = @ + 1,
                                         !.exhausted = @ \cup {runs[r].feedIdx}], <<>>)
  /\ UNCHANGED <<probe, now, world, store, pending, opsLeft>>

SomeDone(r) ==
  tasks[r] = <<>> \/ \E i \in 1..Len(tasks[r]) : tasks[r][i].pc = "done"

\* await Promise.all(promises): every task of the feed has finished
AllDone(r) == \A i \in 1..Len(tasks[r]) : tasks[r][i].pc = "done"

AfterFeedStopOnEmpty(run) ==
  IF run.feedIdx \in run.exhausted THEN Len(world.feeds) + 1 ELSE run.feedIdx + 1

\* for (const feed of feeds): the next feed of the list, whatever this one gave
AfterFeed(run) == run.feedIdx + 1

\* Promise.all(promises) resolves: the loop goes to the next feed
NextFeed(r) ==
  /\ runs[r].pc = "items"
  /\ AllDone(r)
  /\ runs' = [runs EXCEPT ![r] = EnterFeed(FeedsOf(r), @, AfterFeed(runs[r]))]
  /\ tasks' = [tasks EXCEPT ![r] = <<>>]
  /\ UNCHANGED <<probe, now, world, store, pending, opsLeft>>

(* ------------------------------------------------------------------ *)
(* The item task of fetchAllFeeds                                     *)
(* ------------------------------------------------------------------ *)
TaskAt(r, i, pc) ==
  /\ runs[r].pc = "items"
  /\ i \in 1..Len(tasks[r])
  /\ tasks[r][i].pc = pc

SetTask(r, i, t) == tasks' = [tasks EXCEPT ![r][i] = t]

\* the waiting caller of run() resumes: active++, then the task function starts
Admit(r, i) ==
  /\ TaskAt(r, i, "woken")
  /\ runs' = [runs EXCEPT ![r].active = @ + 1]
  /\ SetTask(r, i, RunSync(CurItem(r, i)))
  /\ UNCHANGED <<probe, now, world, store, pending, opsLeft>>

\* if (image && item.link) image = normalizeUrl(item.link, image) || image
FinalImage(item, image) ==
  IF Truthy(image) /\ Truthy(item.link)
  THEN OrElse(normalizeUrl(item.link, image), image)
  ELSE image

\* (item.contentSnippet || item['content:encoded'] || item.content || '').trim()
Desc(item) ==
  Trim(IF item.contentSnippet # "" THEN item.text.contentSnippet
       ELSE IF item.contentEncoded # "" THEN item.text.contentEncoded
       ELSE item.text.content)

DESCRIPTION_MAX == 1200

\* desc.substring(0, 1200)
Truncate(d) == IF Len(d) > DESCRIPTION_MAX THEN SubSeq(d, 1, DESCRIPTION_MAX) ELSE d

\* item.pubDate || item.isoDate
ItemDate(item) == IF item.pubDate.k # "none" THEN item.pubDate ELSE item.isoDate

\* the title and description of every item the feeds of Worlds can return
ItemTexts ==
  UNION {UNION {{<<NormTitle(w.feeds[f].items[i].title), Desc(w.feeds[f].items[i])>> :
                   i \in DOMAIN w.feeds[f].items} :
                f \in DOMAIN w.feeds} :
         w \in Worlds}

\* categorizeArticle(title, desc) for each of these texts, evaluated once
CategoryOf == [t \in ItemTexts |-> categorizeArticle(t[1], t[2])]

\* articleData, built at time at
ArticleData(feed, item, image, at) ==
  LET category == CategoryOf[<<NormTitle(item.title), Desc(item)>>] IN
  [title |-> NormTitle(item.title),
   url |-> OrElse(item.link, OrElse(item.guid, Sentinel)),
   source |-> feed.source,
   category |-> category,
   description |-> Truncate(Desc(item)),
   publishedDate |-> safeDate(ItemDate(item), at),
   relevanceScore |-> calculateRelevance(category),
   image |-> FinalImage(item, image)]

\* the task has its image: articleData is built and updateOne is issued
IssueUpsert(r, i, image, scrape) ==
  SetTask(r, i, [tasks[r][i] EXCEPT !.pc = "upserting", !.image = image,
                                    !.scrape = scrape,
                                    !.art = ArticleData(CurFeed(r), CurItem(r, i), image, now)])

ScrapeAlways(image) == TRUE

\* if (!image) the page is scraped
NeedsScrape(image) == ~Truthy(image)

ScrapeUrl(item) == OrElse(item.link, item.guid)

\* extractImageFromItem has returned
AfterExtract(r, i) ==
  /\ TaskAt(r, i, "extracted")
  /\ IF NeedsScrape(tasks[r][i].image)
     THEN SetTask(r, i, [tasks[r][i] EXCEPT !.pc = "scraping",
                            !.requested = Truthy(ScrapeUrl(CurItem(r, i)))])
     ELSE IssueUpsert(r, i, tasks[r][i].image, "")
  /\ UNCHANGED <<probe, now, world, store, runs, pending, opsLeft>>

\* how a call of scrapePageForImage can end: no url was given ("nourl"), the
\* request or the parse raised ("failed"), or the page was parsed ("ok"); a
\* request is answered only when the url is an absolute one
ScrapeEnds(url) ==
  IF ~Truthy(url) THEN {"nourl"}
  ELSE IF url.k = "abs" THEN {"ok", "failed"}
  ELSE {"failed"}

ScrapeUnguarded(res, url, page) ==
  [raised |-> res = "failed",
   image |-> IF res = "ok" THEN ScrapeParse(url, page) ELSE Null]

\* scrapePageForImage: if (!url) return null; the try block returns what the
\* page gives; the catch logs and returns null
scrapePageForImage(res, url, page) ==
  [raised |-> FALSE,
   image |-> IF res = "ok" THEN ScrapeParse(url, page) ELSE Null]

\* scrapePageForImage settles: image = scraped || null and the upsert is
\* issued; a raise would go to the catch of the task function
ScrapeReturn(r, i) ==
  /\ TaskAt(r, i, "scraping")
  /\ \E res \in ScrapeEnds(ScrapeUrl(CurItem(r, i))) :
       LET o == scrapePageForImage(res, ScrapeUrl(CurItem(r, i)), CurItem(r, i).page) IN
       /\ IF o.raised
          THEN SetTask(r, i, [tasks[r][i] EXCEPT !.pc = "settled", !.scrape = res,
                                                 !.out = "raised"])
          ELSE IssueUpsert(r, i, o.image, res)
       /\ runs' = [runs EXCEPT ![r].scrapes = @ \cup {<<runs[r].feedIdx, i, res>>}]
  /\ UNCHANGED <<probe, now, world, store, pending, opsLeft>>

(* ------------------------------------------------------------------ *)
(* Article.updateOne({url}, {$set: articleData}, {upsert: true})       *)
(* ------------------------------------------------------------------ *)
\* $set writes the fields of articleData and no other field
ApplySet(doc, art) ==
  [doc EXCEPT !.title = art.title, !.url = art.url, !.source = art.source,
              !.category = art.category, !.description = art.description,
              !.publishedDate = art.publishedDate,
              !.relevanceScore = art.relevanceScore, !.image = art.image]

\* a blind replace of the document by articleData and the schema defaults
ReplaceDoc(doc, art) ==
  [id |-> doc.id, title |-> art.title, url |-> art.url, source |-> art.source,
   category |-> art.category, description |-> art.description,
   publishedDate |-> art.publishedDate, relevanceScore |-> art.relevanceScore,
   image |-> art.image, isRead |-> FALSE, isSaved |-> FALSE]

UpdateDoc(doc, art) == ApplySet(doc, art)

\* the document an upsert inserts: the filter, $set and the schema defaults
NewDoc(id, art) ==
  [id |-> id, title |-> art.title, url |-> art.url, source |-> art.source,
   category |-> art.category, description |-> art.description,
   publishedDate |-> art.publishedDate, relevanceScore |-> art.relevanceScore,
   image |-> art.image, isRead |-> FALSE, isSaved |-> FALSE]

\* the _id of a document: generated at the insert, never used twice; it is
\* named after the task that inserts
FreshId(r, i) == <<r, runs[r].feedIdx, i>>

Matching(url) == {d \in store : d.url = url}

\* updateOne changes one matching document
UpdateOne(url, art) ==
  LET d == CHOOSE x \in Matching(url) : TRUE IN
  store' = (store \ {d}) \cup {UpdateDoc(d, art)}

NoUniqueIndex(docs, url) == FALSE

\* url: { unique: true }: an insert of a url that is stored is rejected
UniqueConflict(docs, url) == \E d \in docs : d.url = url

\* the database looks for the document: it updates it, or goes on to insert;
\* the operation can also fail (connection lost, server error)
DBMatch(r, i) ==
  /\ TaskAt(r, i, "upserting")
  /\ \/ /\ world.dbFaults
        /\ SetTask(r, i, [tasks[r][i] EXCEPT !.pc = "dberr"])
        /\ UNCHANGED <<store, runs>>
     \/ /\ Matching(tasks[r][i].art.url) # {}
        /\ UpdateOne(tasks[r][i].art.url, tasks[r][i].art)
        /\ SetTask(r, i, [tasks[r][i] EXCEPT !.pc = "written"])
        /\ runs' = [runs EXCEPT ![r].writes = @ + 1]
     \/ /\ Matching(tasks[r][i].art.url) = {}
        /\ SetTask(r, i, [tasks[r][i] EXCEPT !.pc = "inserting"])
        /\ UNCHANGED <<store, runs>>
  /\ UNCHANGED <<probe, now, world, pending, opsLeft>>

\* the insert of an upsert that matched nothing; when another insert of the
\* url won the race the unique index rejects this one, and the database
\* either retries it as an update or reports E11000
DBInsert(r, i) ==
  /\ TaskAt(r, i, "inserting")
  /\ IF UniqueConflict(store, tasks[r][i].art.url)
     THEN \/ /\ UpdateOne(tasks[r][i].art.url, tasks[r][i].art)
             /\ SetTask(r, i, [tasks[r][i] EXCEPT !.pc = "written"])
             /\ runs' = [runs EXCEPT ![r].writes = @ + 1]
          \/ /\ SetTask(r, i, [tasks[r][i] EXCEPT !.pc = "dberr"])
             /\ UNCHANGED <<store, runs>>
     ELSE /\ store' = store \cup {NewDoc(FreshId(r, i), tasks[r][i].art)}
          /\ SetTask(r, i, [tasks[r][i] EXCEPT !.pc = "written"])
          /\ runs' = [runs EXCEPT ![r].writes = @ + 1]
  /\ UNCHANGED <<probe, now, world, pending, opsLeft>>

CountAlways(total, ok) == total + 1

\* totalSaved += 1 follows the await of updateOne; a raise skips it
CountSaved(total, ok) == IF ok THEN total + 1 ELSE total

\* updateOne resolves or rejects: totalSaved += 1, or the catch logs the error;
\* the task function returns
UpsertReturn(r, i) ==
  /\ \/ TaskAt(r, i, "written")
     \/ TaskAt(r, i, "dberr")
  /\ runs' = [runs EXCEPT ![r].totalSaved = CountSaved(@, tasks[r][i].pc = "written")]
  /\ SetTask(r, i, [tasks[r][i] EXCEPT !.pc = "settled",
                        !.out = IF tasks[r][i].pc = "written" THEN "saved" ELSE "raised"])
  /\ UNCHANGED <<probe, now, world, store, pending, opsLeft>>

ReleaseOnSuccess(active, out) == IF out = "raised" THEN active ELSE active - 1

\* finally { active--; ... }: runs whether fn() returned or raised
ReleaseSlot(active, out) == active - 1

Pop(queue) == [next |-> queue[Len(queue)], rest |-> SubSeq(queue, 1, Len(queue) - 1)]

\* queue.shift() on a queue that is not empty: the waiter that came first
Shift(queue) == [next |-> Head(queue), rest |-> Tail(queue)]

\* finally of run(): active--, and the first waiting caller is resolved
Release(r, i) ==
  /\ TaskAt(r, i, "settled")
  /\ runs' = [runs EXCEPT ![r].active = ReleaseSlot(@, tasks[r][i].out),
                          ![r].queue = IF @ = <<>> THEN @ ELSE Shift(@).rest]
  /\ tasks' = [tasks EXCEPT ![r] =
       [j \in 1..Len(tasks[r]) |->
          IF j = i THEN [tasks[r][j] EXCEPT !.pc = "done"]
          ELSE IF runs[r].queue # <<>> /\ j = Shift(runs[r].queue).next
               THEN [tasks[r][j] EXCEPT !.pc = "woken"]
               ELSE tasks[r][j]]]
  /\ UNCHANGED <<probe, now, world, store, pending, opsLeft>>

(* ------------------------------------------------------------------ *)
(* Reader routes                                                      *)
(* ------------------------------------------------------------------ *)
\* PATCH /:id/read: findByIdAndUpdate(id, { isRead: true })
MarkRead(id) ==
  /\ opsLeft > 0
  /\ \E d \in store :
       /\ d.id = id
       /\ store' = (store \ {d}) \cup {[d EXCEPT !.isRead = TRUE]}
  /\ opsLeft' = opsLeft - 1
  /\ UNCHANGED <<probe, now, world, runs, tasks, pending>>

\* PATCH /:id/save, first half: findById reads the document
ToggleFind(id) ==
  /\ opsLeft > 0
  /\ Cardinality(pending) < MaxPendingToggles
  /\ \E d \in store :
       /\ d.id = id
       /\ [id |-> id, isSaved |-> d.isSaved] \notin pending
       /\ pending' = pending \cup {[id |-> id, isSaved |-> d.isSaved]}
  /\ opsLeft' = opsLeft - 1
  /\ UNCHANGED <<probe, now, world, store, runs, tasks>>

\* PATCH /:id/save, second half: article.isSaved = !article.isSaved; save()
\* writes the one modified path
ToggleSave(q) ==
  /\ q \in pending
  /\ \E d \in store :
       /\ d.id = q.id
       /\ store' = (store \ {d}) \cup {[d EXCEPT !.isSaved = ~q.isSaved]}
  /\ pending' = pending \ {q}
  /\ UNCHANGED <<probe, now, world, runs, tasks, opsLeft>>

Ids == {d.id : d \in store}

Next ==
  \/ \E r \in Runs : StartRun(r)
  \/ \E r \in Runs : FetchOk(r)
  \/ \E r \in Runs : FetchFail(r)
  \/ \E r \in Runs : BackoffDone(r)
  \/ \E r \in Runs : NextFeed(r)
  \/ \E r \in Runs : \E i \in 1..Len(tasks[r]) : Admit(r, i)
  \/ \E r \in Runs : \E i \in 1..Len(tasks[r]) : AfterExtract(r, i)
  \/ \E r \in Runs : \E i \in 1..Len(tasks[r]) : ScrapeReturn(r, i)
  \/ \E r \in Runs : \E i \in 1..Len(tasks[r]) : DBMatch(r, i)
  \/ \E r \in Runs : \E i \in 1..Len(tasks[r]) : DBInsert(r, i)
  \/ \E r \in Runs : \E i \in 1..Len(tasks[r]) : UpsertReturn(r, i)
  \/ \E r \in Runs : \E i \in 1..Len(tasks[r]) : Release(r, i)
  \/ \E id \in Ids : MarkRead(id)
  \/ \E id \in Ids : ToggleFind(id)
  \/ \E q \in pending : ToggleSave(q)

Spec == Init /\ [][Next]_vars

\* a step of a run of fetchAllFeeds that is in progress
RunStep ==
  \/ \E r \in Runs : FetchOk(r) \/ FetchFail(r) \/ BackoffDone(r) \/ NextFeed(r)
  \/ \E r \in Runs : \E i \in 1..Len(tasks[r]) :
       \/ Admit(r, i) \/ AfterExtract(r, i) \/ ScrapeReturn(r, i)
       \/ DBMatch(r, i) \/ DBInsert(r, i) \/ UpsertReturn(r, i) \/ Release(r, i)

\* the worlds with one trigger and a list of feed source objects
LiveWorlds ==
  {w \in Worlds : w.runs = 1 /\ w.iterable
                     /\ \A f \in 1..Len(w.feeds) : w.feeds[f].isObject}

InitLive == Init /\ world \in LiveWorlds

\* every request (feed, page, database) is answered and every timer fires, and
\* the event loop runs every continuation that is ready
SpecLive == InitLive /\ [][Next]_vars /\ WF_vars(RunStep)

\* the startup fetch over a feed of three items and a POST /api/fetch-feeds
\* that names a feed of two items; nothing in server.js makes a trigger wait
\* for the run of an earlier one
TwoTriggers ==
  [feeds |-> <<Feed("f1", <<ItemEnclosure, ItemThumbOnly, ItemTwoMedia>>)>>,
   runs |-> 2, readerOps |-> 0, overlap |-> TRUE, dbFaults |-> FALSE,
   posted |-> <<Feed("f2", <<ItemRetitled, ItemInline>>)>>, iterable |-> TRUE]

\* the worlds in which a trigger does not wait for the run in progress
OverlapWorlds ==
  {TwoTriggers} \cup {[w EXCEPT !.overlap = TRUE] : w \in {v \in Worlds : v.runs = 1}}

InitOverlap ==
  /\ world \in OverlapWorlds
  /\ store = {}
  /\ runs = [r \in Runs |-> IdleRun]
  /\ tasks = [r \in Runs |-> <<>>]
  /\ pending = {}
  /\ opsLeft = world.readerOps
  /\ now = 0
  /\ probe = NoProbe

\* the startup fetch, the cron job and POST /api/fetch-feeds call fetchAllFeeds
\* without awaiting it
SpecOverlap == InitOverlap /\ [][Next]_vars

(* ------------------------------------------------------------------ *)
(* Direct calls of the helpers: categorizeArticle and                 *)
(* calculateRelevance are exported, scrapePageForImage is called with *)
(* the page a request returned                                        *)
(* ------------------------------------------------------------------ *)
\* titles and descriptions given to categorizeArticle
SampleTexts ==
  { <<>>,
    <<"I", "n", "f", "l", "a", "t", "i", "o", "n">>,
    <<"A", "F", "R", "I", "C", "A">>,
    <<"K", "e", "n", "y", "a", " ", "d", "e", "a", "l">>,
    <<"z", "e", "b", "r", "a">>,
    <<"C", "o", "r", "p", "o", "r", "a", "t", "e">>,
    <<"t", "e", "r", "m">>,
    <<"s", "h", "e", "e", "t">>,
    <<"T", "e", "a", "m", " ", "C", "O", "S", "T">>,
    <<"f", "p", "&", "a">>,
    <<"M", "i", "n", "d", "s", "e", "t">>,
    <<"N", "o", " ", "t", "i", "t", "l", "e">> }

\* values given to calculateRelevance: the categories, other strings, and
\* names of properties of Object.prototype
SampleCategories ==
  DOMAIN RelevanceScores \cup {"", "Other", "capital strategy", "constructor", "toString"}

MaxImgs == 2

SampleSrcs == {Abs("a"), Rel("r"), Bad("x")}

\* pages a request can return: og:image and twitter:image absent or one of
\* the sample values, and up to MaxImgs <img> elements with a src
SamplePages ==
  [og : SampleSrcs \cup {Null}, tw : SampleSrcs \cup {Null},
   imgs : UNION {[1..n -> SampleSrcs] : n \in 0..MaxImgs}]

NoWorld ==
  [feeds |-> <<>>, runs |-> 0, readerOps |-> 0, overlap |-> FALSE, dbFaults |-> FALSE,
   posted |-> <<>>, iterable |-> TRUE]

InitFn ==
  /\ world = NoWorld
  /\ store = {}
  /\ runs = [r \in Runs |-> IdleRun]
  /\ tasks = [r \in Runs |-> <<>>]
  /\ pending = {}
  /\ opsLeft = 0
  /\ now = 0
  /\ \/ \E t \in SampleTexts : \E d \in SampleTexts :
          probe = [fn |-> "categorizeArticle", args |-> <<t, d>>, done |-> FALSE,
                   out |-> ""]
     \/ \E c \in SampleCategories :
          probe = [fn |-> "calculateRelevance", args |-> <<c>>, done |-> FALSE,
                   out |-> Undefined]
     \/ \E pg \in SamplePages :
          probe = [fn |-> "scrapePageForImage", args |-> <<Abs("page"), pg>>,
                   done |-> FALSE, out |-> Null]

CallCategorize ==
  /\ probe.fn = "categorizeArticle" /\ ~probe.done
  /\ probe' = [probe EXCEPT !.done = TRUE,
                            !.out = categorizeArticle(probe.args[1], probe.args[2])]
  /\ UNCHANGED <<world, store, runs, tasks, pending, opsLeft, now>>

CallRelevance ==
  /\ probe.fn = "calculateRelevance" /\ ~probe.done
  /\ probe' = [probe EXCEPT !.done = TRUE, !.out = calculateRelevance(probe.args[1])]
  /\ UNCHANGED <<world, store, runs, tasks, pending, opsLeft, now>>

\* the request is answered with the page: the try block runs to its return
CallScrape ==
  /\ probe.fn = "scrapePageForImage" /\ ~probe.done
  /\ probe' = [probe EXCEPT !.done = TRUE,
                  !.out = scrapePageForImage("ok", probe.args[1], probe.args[2]).image]
  /\ UNCHANGED <<world, store, runs, tasks, pending, opsLeft, now>>

NextFn == CallCategorize \/ CallRelevance \/ CallScrape

SpecFn == InitFn /\ [][NextFn]_vars

(* ------------------------------------------------------------------ *)
(* Properties                                                         *)
(* ------------------------------------------------------------------ *)
TaskIdx(r) == 1..Len(tasks[r])

\* tasks that hold a slot of the gate of run r: admitted, not yet released
InFlight(r) ==
  {i \in TaskIdx(r) : tasks[r][i].pc \in
     {"extracted", "scraping", "upserting", "inserting", "written", "dberr", "settled"}}

Woken(r) == {i \in TaskIdx(r) : tasks[r][i].pc = "woken"}

\* the database applies the upsert of task (r, i) in this step
UpsertApplied(r, i) ==
  /\ i \in TaskIdx(r)
  /\ tasks[r][i].pc \in {"upserting", "inserting"}
  /\ Len(tasks'[r]) = Len(tasks[r])
  /\ tasks'[r][i].pc = "written"

ReaderStep == opsLeft' # opsLeft \/ pending' # pending

\* C1: an ingestion upsert of a stored url overwrites title, source and image
\* with the new values and leaves isRead and isSaved as they were; a document
\* it creates has both false; isRead and isSaved of a stored document change
\* only in steps of the reader routes, under every interleaving.
C1_UpsertKeepsReaderFlags ==
  [][ /\ \A r \in Runs : \A i \in TaskIdx(r) :
           UpsertApplied(r, i) =>
             \E e \in store' :
               /\ e.url = tasks[r][i].art.url
               /\ e.title = tasks[r][i].art.title
               /\ e.source = tasks[r][i].art.source
               /\ e.image = tasks[r][i].art.image
               /\ \A d \in store :
                    d.id = e.id => e.isRead = d.isRead /\ e.isSaved = d.isSaved
               /\ (\A d \in store : d.id # e.id) => ~e.isRead /\ ~e.isSaved
      /\ \A d \in store : \A e \in store' :
           (d.id = e.id /\ (d.isRead # e.isRead \/ d.isSaved # e.isSaved))
             => ReaderStep
    ]_vars

\* a second ingestion of u1 has been applied to the document the first one
\* created, and the document carries both reader flags
C1_Witness ==
  \E r \in Runs : \E i \in TaskIdx(r) : \E d \in store :
    /\ tasks[r][i].pc = "written"
    /\ tasks[r][i].art.title = <<"B">>
    /\ d.url = Abs("u1") /\ d.title = <<"B">> /\ d.id # FreshId(r, i)
    /\ d.isRead /\ d.isSaved

UniqueUrl == \A d \in store : \A e \in store : d.url = e.url => d = e

\* C2: the store never holds two documents with the same url; a step of the
\* pipeline adds at most one document, removes none, and an upsert of a
\* stored url changes the document that has it (same _id, same url).
C2_OneRecordPerUrl ==
  /\ [](UniqueUrl)
  /\ [][ /\ \A d \in store : \E e \in store' : e.id = d.id /\ e.url = d.url
         /\ Cardinality(store') <= Cardinality(store) + 1
         /\ \A r \in Runs : \A i \in TaskIdx(r) :
              (UpsertApplied(r, i) /\ Matching(tasks[r][i].art.url) # {})
                => Cardinality(store') = Cardinality(store)
       ]_vars

\* two tasks of one feed upsert the same url: one inserted, the other lost the
\* race against the unique index
C2_Witness ==
  \E r \in Runs : \E i \in TaskIdx(r) : \E j \in TaskIdx(r) :
    /\ i # j
    /\ tasks[r][i].pc = "written"
    /\ tasks[r][j].pc = "inserting"
    /\ tasks[r][i].art.url = tasks[r][j].art.url
    /\ Cardinality(Matching(tasks[r][j].art.url)) = 1

\* C3: the tasks a gate has admitted and that have not finished are never
\* more than MAX_SCRAPE_CONCURRENCY = 4, and so is its counter active.
C3_GateBound ==
  \A r \in Runs :
    /\ Cardinality(InFlight(r) \cup Woken(r)) <= MAX_SCRAPE_CONCURRENCY
    /\ runs[r].active <= MAX_SCRAPE_CONCURRENCY

\* a feed of more than 4 items: 4 tasks hold a slot, one waits, one is done
C3_Witness ==
  \E r \in Runs :
    /\ Len(tasks[r]) > MAX_SCRAPE_CONCURRENCY
    /\ Cardinality(InFlight(r)) = MAX_SCRAPE_CONCURRENCY
    /\ runs[r].queue # <<>>
    /\ \E i \in TaskIdx(r) : tasks[r][i].pc = "done"

NoneUnfinished(r) == {i \in TaskIdx(r) : tasks[r][i].pc # "done"} = {}

\* C4: a run takes the feeds in list order; it leaves a feed (fetches the
\* next one, or ends) only when every item task of that feed has finished, so
\* no task is in flight while a feed is fetched, and never more than 4.
C4_FeedsSequential ==
  /\ [][ \A r \in Runs :
           /\ runs[r].pc = "items" /\ runs'[r].pc # "items" => NoneUnfinished(r)
           /\ runs[r].feedIdx # runs'[r].feedIdx =>
                /\ runs'[r].feedIdx = runs[r].feedIdx + 1
                /\ runs[r].pc = "items" => NoneUnfinished(r)
       ]_vars
  /\ [](\A r \in Runs :
          /\ runs[r].pc # "items" => InFlight(r) \cup Woken(r) = {}
          /\ Cardinality(InFlight(r)) <= MAX_SCRAPE_CONCURRENCY)

\* the second feed is being fetched after a first feed that had item tasks
C4_Witness ==
  \E r \in Runs :
    /\ runs[r].feedIdx = 2
    /\ runs[r].pc = "fetching"
    /\ Len(world.feeds[1].items) > MAX_SCRAPE_CONCURRENCY
    /\ 1 \notin runs[r].exhausted
    /\ runs[r].totalSaved > MAX_SCRAPE_CONCURRENCY

AllFail(log) == \A k \in 1..Len(log) : log[k] = "fail"

\* C5: at most 3 attempts per feed; an attempt follows only failed ones; after
\* a success the items of that attempt are submitted and no attempt follows;
\* the wait after failed attempt k is k * 500 ms.
C5_RetriesAndBackoff ==
  \A r \in Runs :
    /\ Len(runs[r].log) <= 3
    /\ runs[r].pc = "fetching" =>
         /\ AllFail(runs[r].log)
         /\ Len(runs[r].log) = runs[r].attempt
         /\ runs[r].attempt <= 2
    /\ runs[r].pc = "backoff" =>
         /\ AllFail(runs[r].log)
         /\ runs[r].waitMs = 500 * Len(runs[r].log)
    /\ runs[r].pc = "items" =>
         \/ /\ AllFail(runs[r].log)
            /\ Len(runs[r].log) = 3
            /\ tasks[r] = <<>>
         \/ /\ runs[r].log[Len(runs[r].log)] = "ok"
            /\ AllFail(SubSeq(runs[r].log, 1, Len(runs[r].log) - 1))
            /\ Len(tasks[r]) = Len(CurFeed(r).items)

\* the third attempt succeeded after waits of 500 and 1000 ms
C5_Witness ==
  \E r \in Runs :
    /\ runs[r].pc = "items"
    /\ runs[r].log = <<"fail", "fail", "ok">>
    /\ runs[r].waitMs = 1000
    /\ tasks[r] # <<>>

\* the third failure is followed by a wait of 1500 ms
C5_WitnessLastWait ==
  \E r \in Runs : runs[r].pc = "backoff" /\ runs[r].waitMs = 1500

FeedIdxs == 1..Len(world.feeds)

OnlyRun(r) == \A q \in Runs : q # r => runs[q].pc = "idle"

\* C6: a feed whose three attempts all failed gives no items and no task, no
\* document of that source is written, and the run still visits every later
\* feed of the list before it ends.
C6_ExhaustedFeedSkipped ==
  \A r \in Runs :
    /\ (runs[r].pc = "items" /\ runs[r].feedIdx \in runs[r].exhausted) => tasks[r] = <<>>
    /\ OnlyRun(r) =>
         \A k \in runs[r].exhausted : \A d \in store : d.source # world.feeds[k].source
    /\ runs[r].pc = "finished" => runs[r].visited = FeedIdxs

\* the first feed failed three times, the run ended, and an item of a later
\* feed is stored
C6_Witness ==
  \E r \in Runs :
    /\ runs[r].pc = "finished"
    /\ 1 \in runs[r].exhausted
    /\ OnlyRun(r)
    /\ \E d \in store : \E k \in FeedIdxs : k > 1 /\ d.source = world.feeds[k].source

\* C7: a raise in one item's processing (a title that is not a string, a
\* failed upsert) stays in that task: its gate slot is released, so the gate
\* counter equals the tasks in flight; the sibling items are saved unless
\* their own upsert fails; the run visits the following feeds.
C7_ItemFailureIsolated ==
  \A r \in Runs :
    /\ runs[r].active = Cardinality(InFlight(r))
    /\ \A i \in TaskIdx(r) :
         /\ tasks[r][i].pc = "done" => tasks[r][i].out \in {"saved", "raised"}
         /\ (tasks[r][i].pc = "done" /\ ~world.dbFaults) =>
              (tasks[r][i].out = "raised" <=> CurItem(r, i).titleObj)
         /\ (tasks[r][i].pc = "done" /\ tasks[r][i].out = "saved") =>
              \E d \in store : d.url = tasks[r][i].art.url
    /\ (runs[r].pc = "items" /\ NoneUnfinished(r)) =>
         runs[r].active = 0 /\ runs[r].queue = <<>>
    /\ runs[r].pc = "finished" => runs[r].visited = FeedIdxs /\ runs[r].result # Pending

\* a feed of more than 4 items has finished: the item with the bad title
\* raised, items that waited behind it were admitted and saved, and the run
\* is on the next feed
C7_Witness ==
  \E r \in Runs :
    /\ runs[r].feedIdx = 2
    /\ runs[r].pc = "items"
    /\ Len(world.feeds[1].items) > MAX_SCRAPE_CONCURRENCY
    /\ \E k \in 1..Len(world.feeds[1].items) : world.feeds[1].items[k].titleObj
    /\ \E i \in TaskIdx(r) : tasks[r][i].out = "saved"
    /\ runs[r].totalSaved =
         Len(world.feeds[1].items) - 1
           + Cardinality({i \in TaskIdx(r) : tasks[r][i].out = "saved"})

\* a failed upsert: the task raised, its sibling was saved
C7_WitnessUpsert ==
  \E r \in Runs : \E i \in TaskIdx(r) : \E j \in TaskIdx(r) :
    /\ tasks[r][i].pc = "done" /\ tasks[r][i].out = "raised" /\ ~CurItem(r, i).titleObj
    /\ tasks[r][j].pc = "done" /\ tasks[r][j].out = "saved"

\* C8 as stated: when a run completes, fetchAllFeeds returns the number of
\* items whose upsert completed in that run.
C8_ReturnsCount ==
  \A r \in Runs : runs[r].pc = "finished" => runs[r].result = Count(runs[r].writes)

\* C8 amended: when a run completes, the number of items whose upsert
\* completed in that run has been counted in totalSaved and logged;
\* fetchAllFeeds returns no value (undefined).
C8_CountLoggedNotReturned ==
  \A r \in Runs :
    /\ runs[r].totalSaved <= runs[r].writes
    /\ runs[r].pc = "finished" =>
         /\ runs[r].result = Undefined
         /\ runs[r].logged = runs[r].writes
         /\ runs[r].totalSaved = runs[r].writes

\* a run ended with some upserts completed and one failed
C8_Witness ==
  \E r \in Runs :
    /\ runs[r].pc = "finished"
    /\ world.dbFaults
    /\ runs[r].logged = 2
    /\ Len(world.feeds) = 2
    /\ Len(world.feeds[1].items) + Len(world.feeds[2].items) = 5

\* tasks whose function has passed extractImageFromItem
PastExtract(r) ==
  {i \in TaskIdx(r) : tasks[r][i].pc \notin {"queued", "woken"} /\ ~CurItem(r, i).titleObj}

HasFeedMedia(item) ==
  Truthy(item.enclosure) \/ Truthy(item.mediaContent) \/ Truthy(item.mediaThumbnail)

HasInlineImg(item) ==
  \/ item.content = "img"
  \/ item.content = "" /\ item.contentEncoded = "img"
  \/ item.content = "" /\ item.contentEncoded = "" /\ item.contentSnippet = "img"

\* C9: for an item with an enclosure URL the resolver's image is that URL
\* (stored in absolute form), whatever its inline content and its page hold,
\* and no page request is made for it; a page is requested only for items
\* with no feed media URL and no inline <img>.
C9_EnclosureShortCircuits ==
  \A r \in Runs : \A i \in PastExtract(r) :
    /\ Truthy(CurItem(r, i).enclosure) =>
         /\ tasks[r][i].image = CurItem(r, i).enclosure
         /\ tasks[r][i].pc # "scraping"
         /\ ~tasks[r][i].requested
         /\ tasks[r][i].art # NoArt =>
              /\ tasks[r][i].art.image.n = CurItem(r, i).enclosure.n
              /\ CurItem(r, i).enclosure.k = "abs" =>
                   tasks[r][i].art.image = CurItem(r, i).enclosure
    /\ (tasks[r][i].pc = "scraping" \/ tasks[r][i].requested) =>
         ~HasFeedMedia(CurItem(r, i)) /\ ~HasInlineImg(CurItem(r, i))

\* the item with enclosure, inline <img> and og:image is stored with its
\* enclosure URL
C9_Witness ==
  \E r \in Runs : \E i \in TaskIdx(r) : \E d \in store :
    /\ CurItem(r, i) = ItemEnclosure
    /\ tasks[r][i].pc = "done"
    /\ tasks[r][i].out = "saved"
    /\ d.url = ItemEnclosure.link
    /\ d.image = ItemEnclosure.enclosure
    /\ Truthy(ItemEnclosure.page.og) /\ HasInlineImg(ItemEnclosure)

\* a page was requested for an item without media and inline image
C9_WitnessScrape ==
  \E r \in Runs : \E i \in TaskIdx(r) :
    tasks[r][i].pc = "scraping" /\ tasks[r][i].requested

\* C10 as stated: enclosure first, then media:thumbnail, then media:content.
C10_ThumbnailBeforeContent ==
  \A r \in Runs : \A i \in PastExtract(r) :
    HasFeedMedia(CurItem(r, i)) =>
      tasks[r][i].image =
        IF Truthy(CurItem(r, i).enclosure) THEN CurItem(r, i).enclosure
        ELSE IF Truthy(CurItem(r, i).mediaThumbnail) THEN CurItem(r, i).mediaThumbnail
        ELSE CurItem(r, i).mediaContent

\* C10 amended: among the feed media fields the resolver takes the enclosure
\* URL first, then the media:content URL, then the media:thumbnail URL; an
\* item with media:thumbnail and media:content and no enclosure resolves to
\* the media:content URL.
C10_ContentBeforeThumbnail ==
  \A r \in Runs : \A i \in PastExtract(r) :
    /\ Truthy(CurItem(r, i).enclosure) => tasks[r][i].image = CurItem(r, i).enclosure
    /\ (~Truthy(CurItem(r, i).enclosure) /\ Truthy(CurItem(r, i).mediaContent)) =>
         tasks[r][i].image = CurItem(r, i).mediaContent
    /\ (~Truthy(CurItem(r, i).enclosure) /\ ~Truthy(CurItem(r, i).mediaContent)
          /\ Truthy(CurItem(r, i).mediaThumbnail)) =>
         tasks[r][i].image = CurItem(r, i).mediaThumbnail

\* the item with both media fields is stored with its media:content URL, and
\* the item with a thumbnail only with the thumbnail
C10_Witness ==
  \E r \in Runs : \E i \in TaskIdx(r) : \E d \in store :
    /\ CurItem(r, i) = ItemTwoMedia
    /\ tasks[r][i].pc = "done"
    /\ d.url = ItemTwoMedia.link
    /\ d.image = ItemTwoMedia.mediaContent
    /\ \E e \in store : e.url = ItemThumbOnly.link /\ e.image = ItemThumbOnly.mediaThumbnail

\* tasks whose call of scrapePageForImage found no image because the request
\* or the parse failed, or because the item has no url to request
ScrapeFailed(r) == {i \in TaskIdx(r) : tasks[r][i].scrape \in {"failed", "nourl"}}

\* C11: when the page scrape of an item fails, scrapePageForImage gives no
\* image and does not raise: the task goes on to build its article with image
\* null and to issue the upsert; it is saved unless the upsert itself fails,
\* and the feed's other tasks and the gate are as without the failure.
C11_ScrapeFailureGivesNull ==
  \A r \in Runs : \A i \in ScrapeFailed(r) :
    /\ tasks[r][i].pc \in {"upserting", "inserting", "written", "dberr", "settled", "done"}
    /\ tasks[r][i].image = Null
    /\ tasks[r][i].art # NoArt
    /\ tasks[r][i].art.image = Null
    /\ tasks[r][i].art.url = OrElse(CurItem(r, i).link, OrElse(CurItem(r, i).guid, Sentinel))
    /\ tasks[r][i].art.title = NormTitle(CurItem(r, i).title)
    /\ tasks[r][i].out = "saved" => \E d \in store : d.url = tasks[r][i].art.url
    /\ runs[r].active = Cardinality(InFlight(r))

\* the request for the page of an item failed; the item is stored with image
\* null and the run has ended
C11_Witness ==
  \E r \in Runs : \E d \in store :
    /\ runs[r].pc = "finished"
    /\ d.url = ItemRetitled.link
    /\ d.title = <<"B">>
    /\ d.image = Null
    /\ runs[r].totalSaved = 2

\* the failed request is followed by the upsert of the same task
C11_WitnessTask ==
  \E r \in Runs : \E i \in TaskIdx(r) :
    /\ tasks[r][i].scrape = "failed"
    /\ tasks[r][i].pc = "done"
    /\ tasks[r][i].out = "saved"

Called(fn) == probe.fn = fn /\ probe.done

\* the keywords written for a category, whatever its place in the table
KeywordsOf(c) ==
  LET j == CHOOSE k \in DOMAIN CATEGORY_KEYWORDS : CATEGORY_KEYWORDS[k].category = c
  IN CATEGORY_KEYWORDS[j].keywords

\* some keyword of category c occurs in `title description`, letter case aside
Hit(c, title, description) ==
  \E k \in DOMAIN KeywordsOf(c) :
    includes(toLowerCase(title \o <<" ">> \o description), toLowerCase(KeywordsOf(c)[k]))

\* C12: categorizeArticle returns the first category, in the order Capital
\* Strategy, Private Markets & M&A, Operational Excellence, Leadership &
\* Conscious CFO, Africa Finance, one of whose keywords occurs in the text as a
\* case-insensitive substring, and Uncategorized when none does.
C12_FirstCategoryWins ==
  Called("categorizeArticle") =>
    LET order == <<"Capital Strategy", "Private Markets & M&A", "Operational Excellence",
                   "Leadership & Conscious CFO", "Africa Finance">>
        t == probe.args[1]
        d == probe.args[2]
    IN /\ probe.out \in {order[j] : j \in 1..5} \cup {"Uncategorized"}
       /\ \A j \in 1..5 :
            (Hit(order[j], t, d) /\ \A h \in 1..(j - 1) : ~Hit(order[h], t, d))
              => probe.out = order[j]
       /\ (\A j \in 1..5 : ~Hit(order[j], t, d)) => probe.out = "Uncategorized"

\* a text with 'Inflation' and 'AFRICA' is Capital Strategy
C12_Witness ==
  /\ Called("categorizeArticle")
  /\ probe.args = <<<<"I", "n", "f", "l", "a", "t", "i", "o", "n">>,
                     <<"A", "F", "R", "I", "C", "A">>>>
  /\ probe.out = "Capital Strategy"

\* a text without any keyword is Uncategorized
C12_WitnessNone ==
  /\ Called("categorizeArticle")
  /\ probe.args = <<<<"z", "e", "b", "r", "a">>, <<>>>>
  /\ probe.out = "Uncategorized"

\* C13 as stated: calculateRelevance returns the table value of each of the six
\* categories and 2 for every other input.
C13_TableElseTwo ==
  Called("calculateRelevance") =>
    probe.out =
      CASE probe.args[1] \in {"Private Markets & M&A", "Africa Finance"} -> Num(5)
        [] probe.args[1] \in {"Capital Strategy", "Operational Excellence"} -> Num(4)
        [] probe.args[1] = "Leadership & Conscious CFO" -> Num(3)
        [] probe.args[1] = "Uncategorized" -> Num(1)
        [] OTHER -> Num(2)

\* the items of the feeds whose task function reaches its upsert
Savable ==
  UNION {{<<f, i>> : i \in {k \in 1..Len(world.feeds[f].items) :
                                ~world.feeds[f].items[k].titleObj}} : f \in FeedIdxs}

\* run r has ended and every one of its upserts was applied
Complete(r) == runs[r].pc = "finished" /\ runs[r].totalSaved = Cardinality(Savable)

\* C14 as stated: a second run over unchanged feeds, with the same scrape
\* results, leaves the fields the pipeline writes (title, url, source,
\* category, description, image, publishedDate, relevanceScore) of every
\* document as after the first run and adds no document, also for items
\* whose publish date is missing or does not parse.
C14_RerunChangesNothing ==
  \A r \in Runs :
    (r > 1 /\ Complete(r) /\ Complete(r - 1) /\ runs[r].scrapes = runs[r - 1].scrapes)
      => runs[r].final = runs[r - 1].final

\* C15 as stated: whatever source list a trigger passes, no run of
\* fetchAllFeeds ends with its promise rejected.
C15_NoRunRejects == \A r \in Runs : runs[r].result # Rejected

\* the image candidates of a page in the order of the chain
Candidates(page) == <<page.og, page.tw>> \o page.imgs

Resolves(url, c) == Truthy(normalizeUrl(url, c))

\* C16 as stated: the scrape gives the first candidate of the chain og:image,
\* twitter:image, <img> elements that resolves against the page url, in
\* absolute form; a candidate that does not resolve is passed over.
C16_ChainPassesOverUnresolvable ==
  Called("scrapePageForImage") =>
    LET url == probe.args[1]
        c == Candidates(probe.args[2])
        ok == {j \in DOMAIN c : Resolves(url, c[j])}
    IN /\ ok = {} => probe.out = Null
       /\ \A j \in ok : (\A h \in ok : j <= h) =>
            probe.out = normalizeUrl(url, c[j]) /\ probe.out.k = "abs"

\* C16, last part, as stated: every image stored is null or an absolute URL.
C16_StoredImageAbsolute == \A d \in store : Truthy(d.image) => d.image.k = "abs"

Queued(r) == {i \in TaskIdx(r) : tasks[r][i].pc = "queued"}

\* C17: with every request answered, a run that has tasks waiting at the gate
\* comes to the point where all tasks of the feed have finished, and a run
\* that was started ends; a task leaves the wait queue only when no task
\* submitted before it still waits; the wait queue holds the waiting tasks in
\* submission order; a task that finishes gives its slot back whether it
\* returned or raised; when all tasks of a feed have finished the gate has
\* active = 0 and an empty queue.
C17_GateLiveAndFifo ==
  /\ \A r \in Runs :
       (Queued(r) # {}) ~> (runs[r].pc = "items" /\ tasks[r] # <<>> /\ NoneUnfinished(r))
  /\ \A r \in Runs : (runs[r].pc = "fetching") ~> (runs[r].pc = "finished")
  /\ [][ \A r \in Runs : \A i \in TaskIdx(r) :
           /\ (tasks[r][i].pc = "queued" /\ Len(tasks'[r]) = Len(tasks[r])
                 /\ tasks'[r][i].pc # "queued")
                => /\ tasks'[r][i].pc = "woken"
                   /\ \A j \in 1..(i - 1) : tasks[r][j].pc # "queued"
           /\ (tasks[r][i].pc = "settled" /\ Len(tasks'[r]) = Len(tasks[r])
                 /\ tasks'[r][i].pc = "done")
                => /\ runs'[r].active = runs[r].active - 1
                   /\ tasks[r][i].out \in {"saved", "raised"}
       ]_vars
  /\ [](\A r \in Runs :
         /\ \A k \in 1..Len(runs[r].queue) :
              /\ runs[r].queue[k] \in Queued(r)
              /\ \A h \in 1..(k - 1) : runs[r].queue[h] < runs[r].queue[k]
         /\ Cardinality(Queued(r)) = Len(runs[r].queue)
         /\ (runs[r].pc = "items" /\ NoneUnfinished(r)) =>
              runs[r].active = 0 /\ runs[r].queue = <<>>)

\* all tasks of a feed of more than 4 items have finished: one raised, the
\* tasks that waited behind it were saved, and the gate is empty
C17_Witness ==
  \E r \in Runs :
    /\ runs[r].pc = "items"
    /\ Len(tasks[r]) > MAX_SCRAPE_CONCURRENCY
    /\ NoneUnfinished(r)
    /\ \E i \in TaskIdx(r) : tasks[r][i].out = "raised"
    /\ \A i \in TaskIdx(r) : i > MAX_SCRAPE_CONCURRENCY => tasks[r][i].out = "saved"
    /\ runs[r].active = 0 /\ runs[r].queue = <<>>

\* the item tasks of all runs that are past the gate
AllInFlight == {<<r, i>> \in Runs \X (1..GateFeedSize) : i \in InFlight(r)}

\* C18: at most 4 item tasks are in flight in the whole process at any time,
\* also when a run starts while an earlier run is still in progress
C18_ProcessWideBound == Cardinality(AllInFlight) <= MAX_SCRAPE_CONCURRENCY

\* C19: once a stored record has a non-null image, no later ingestion of the
\* same url sets its image to null
C19_ImageNeverCleared ==
  [][\A d \in store : \A e \in store' :
       (d.url = e.url /\ Truthy(d.image)) => Truthy(e.image)]_vars

\* the tasks of the current feed of run r whose upsert was applied
SavedTasks(r) == {i \in TaskIdx(r) : tasks[r][i].out = "saved"}

\* the last item of the feed, in the order of the feed, that was saved under
\* the url of task i
LastSavedFor(r, i) ==
  CHOOSE j \in SavedTasks(r) :
    /\ tasks[r][j].art.url = tasks[r][i].art.url
    /\ \A k \in SavedTasks(r) : tasks[r][k].art.url = tasks[r][i].art.url => k <= j

\* C20: when all item tasks of a feed have finished, the record of each url is
\* the one the feed and the scrape results determine (the last item of the
\* feed with that url), whatever the order in which the tasks completed
C20_OrderIndependent ==
  \A r \in Runs :
    (runs[r].pc = "items" /\ NoneUnfinished(r)) =>
      \A i \in SavedTasks(r) :
        \A d \in store :
          d.url = tasks[r][i].art.url => Written(d) = tasks[r][LastSavedFor(r, i)].art

\* the same feed and scrape results, with the tasks completing in the order
\* of the feed: the record is the one of the last item
C20_InOrderOutcome ==
  ~ \E r \in Runs :
      /\ runs[r].pc = "items" /\ NoneUnfinished(r)
      /\ \E i \in SavedTasks(r) : LastSavedFor(r, i) # i
      /\ \A i \in SavedTasks(r) :
           \A d \in store :
             d.url = tasks[r][i].art.url => Written(d) = tasks[r][LastSavedFor(r, i)].art

====
